---- MODULE Spec2Model ----
(***************************************************************************)
(* A model of the interpreter loop of src/source/brain_fuck.cpp (main,    *)
(* lines 135-254): the tape `stack`, the cell `pointer`, the vector       *)
(* `loop_start_indices`, the statistics counters and the instruction      *)
(* `index`.  Instruction indices are 0-based as in the source; the k-th   *)
(* character of the program is instructions[k + 1].  Characters of the    *)
(* program are one-character strings; cell values and emitted characters  *)
(* are signed-byte character codes.                                       *)
(***************************************************************************)
EXTENDS Integers, Sequences, FiniteSets, TLC

VARIABLES
    instructions,        \* string instructions (line 64)
    cell_limit,          \* int cell_limit (line 57, -l flag line 108)
    stack,               \* map<int, char> stack: the tape (line 137)
    pointer,             \* int pointer (line 138)
    loop_start_indices,  \* vector<int> loop_start_indices (line 142)
    lowest_cell,         \* line 145
    greatest_cell,       \* line 146
    operations,          \* line 147
    left_shifts,         \* line 148
    right_shifts,        \* line 149
    index,               \* the for loop's index (line 153)
    indentation,         \* the skip scan's depth counter (line 209)
    scan_from,           \* the index the running skip scan started at (line 204)
    output,              \* the characters the program wrote with `.` (line 196)
    verbose,             \* bool verbose (line 55, -v flag line 118)
    report,              \* the statistics printed by lines 260-288: none or one
    input,               \* string input of get_input (line 27), the last line read
    cin_good,            \* cin.good() after the last getline (line 30)
    leftmost,            \* the least value the pointer has had in this run
    rightmost,           \* the greatest value the pointer has had in this run
    pc,                  \* "run": at the loop head; "scan": in the while loop
                         \* of lines 212-220; "done": main has returned
    result               \* how main ended, "Running" until then

vars == <<instructions, cell_limit, stack, pointer, loop_start_indices,
          lowest_cell, greatest_cell, operations, left_shifts, right_shifts,
          index, indentation, scan_from, output, verbose, report, input,
          cin_good, leftmost, rightmost, pc, result>>

----------------------------------------------------------------------------
(* Bounds of the model *)

\* programs of every length up to MaxLen over the whole alphabet are run
MaxLen == 3
\* the loop of line 153 is followed for at most MaxOps iterations
MaxOps == 140
\* cell limits 0..MaxSmallLimit are tried besides the default
MaxSmallLimit == 1
\* how far past the string's terminator an unterminated skip scan is followed
MaxOverrun == 2

----------------------------------------------------------------------------
(* Program constants *)

DefaultCellLimit == 256
CharMin == -128
CharMax == 127
Space == 32
Tilde == 126
QuestionMark == 63

----------------------------------------------------------------------------
(* Helpers *)

Abs(n) == IF n < 0 THEN -n ELSE n
Min(a, b) == IF a < b THEN a ELSE b
Max(a, b) == IF a > b THEN a ELSE b

\* conversion of an int to the signed char that stores it
ToChar(n) == ((n - CharMin) % (CharMax - CharMin + 1)) + CharMin

\* instructions[k] of the source, for 0 <= k < size()
At(prog, k) == prog[k + 1]

\* stack[a] as an rvalue: the mapped value, zero for a key not yet present
Cell(s, a) == IF a \in DOMAIN s THEN s[a] ELSE 0
\* the read that leaves a zero cell behind
TouchClears(s, a) == [x \in DOMAIN s \cup {a} |-> IF x = a THEN 0 ELSE s[x]]
\* the map after stack[a] was evaluated: operator[] inserts a zero cell
Touch(s, a) == [x \in DOMAIN s \cup {a} |-> Cell(s, x)]
\* the map as constructed: no keys
EmptyTape == [x \in {} |-> 0]
\* the map after stack[a] = v
Store(s, a, v) == [x \in DOMAIN s \cup {a} |-> IF x = a THEN v ELSE s[x]]

----------------------------------------------------------------------------
(* The programs and inputs the model runs *)

Operators == {"+", "-", "<", ">", ".", ",", "[", "]"}
\* characters that are no operators: "x" stands for any of them but "/"
OtherChars == {"x", "/"}
\* the characters the short programs are built of
Alphabet == Operators \cup {"x"}
\* what instructions[size()] reads: the string's terminator, no operator
Nul == "NUL"

Rep(c, n) == [k \in 1..n |-> c]

ShortPrograms == UNION {[1..n -> Alphabet] : n \in 0..MaxLen}

\* ++++++++[>++++<-]>.
TimesProgram ==
    Rep("+", 8) \o <<"[", ">">> \o Rep("+", 4) \o <<"<", "-", "]", ">", ".">>

\* runs of + followed by runs of - that cross the ends of the char range
WrapPrograms ==
    {Rep("+", n) \o Rep("-", m) : n \in {CharMax, CharMax + 1}, m \in {0, 2}}
    \cup {Rep("+", n) \o Rep("-", m) : n \in {0, 1}, m \in {-CharMin, 1 - CharMin}}
    \cup {Rep("-", m) \o Rep("+", n) : n \in {0, 2}, m \in {-CharMin, 1 - CharMin}}

LoopPrograms ==
    { <<"+", "[", "[", "-", "]", "]">>,                      \* +[[-]]
      <<"+", "[", "[", "]", "]">>,                           \* +[[]]
      <<"+", "[", ">", "+", "]">>,                           \* +[>+]
      <<"+", "[", "<", "<", ">", "+", "]">>,                 \* +[<<>+]
      <<"[", "[", "]", "]", "x">>,                           \* [[]]x
      <<"[", "x", "[", "+", "]", "[", "]", "-", "]", "+">>,  \* [x[+][]-]+
      <<"+", "+", "[", ">", "+", "[", "-", "]", "<", "-", "]">>,  \* ++[>+[-]<-]
      <<"+", "[", "-", "[", "x", "]", "]", ".">>,            \* +[-[x]].
      <<"<", "<", "<", ">", "x">>,                           \* <<<>x
      <<">", ">", "<", "<", "<", ">", "+">>,                 \* >><<<>+
      <<">", ">", "<", "<", "<", "<", ">", "+">>,            \* >><<<<>+
      <<"-", "[", ",", "]">>,                                \* -[,]
      <<"+", "]", "]", "[">> }                               \* +]][

\* programs that write cells at the ends of the printable range
OutputPrograms ==
    {Rep("+", n) \o <<".">> : n \in {Space - 1, Space, Tilde, Tilde + 1}}

\* programs with the character "/"
SlashPrograms == { <<"/">>, <<"+", "/", ",", ".">> }

Programs ==
    ShortPrograms \cup WrapPrograms \cup LoopPrograms \cup {TimesProgram}
        \cup OutputPrograms \cup SlashPrograms

CellLimits == (0..MaxSmallLimit) \cup {DefaultCellLimit}

\* the lines getline can deliver: empty, "A", "AB"
InputLines == {<<>>, <<65>>, <<65, 66>>}

----------------------------------------------------------------------------
(* The pieces of the loop body, as the source computes them *)

\* the check with >= for >
OverLimitAtLimit(greatest, lowest, limit) == Abs(greatest) + Abs(lowest) >= limit
\* line 162
OverLimit(greatest, lowest, limit) == Abs(greatest) + Abs(lowest) > limit

\* the increment without the conversion back to char
IncNoWrap(v) == v + 1
\* line 169: stack[pointer] += 1 on a char
Inc(v) == ToChar(v + 1)
\* line 171: stack[pointer] -= 1 on a char
Dec(v) == ToChar(v - 1)

\* the extremum following the pointer on every move to the right
LowestTracksPointer(p, lowest) == IF Abs(p) > Abs(lowest) THEN p ELSE lowest
\* line 177: lowest_cell = min(pointer, lowest_cell), pointer already moved
LowestAfterRight(p, lowest) == Min(p, lowest)
\* line 182: greatest_cell = max(pointer, greatest_cell), pointer already moved
GreatestAfterLeft(p, greatest) == Max(p, greatest)

\* the range test without its upper end
OutputCharNoUpper(v) == IF v < Space THEN QuestionMark ELSE v
\* the range test with <= for <
OutputCharStrict(v) == IF v <= Space \/ v > Tilde THEN QuestionMark ELSE v
\* lines 190-194
OutputChar(v) == IF v < Space \/ v > Tilde THEN QuestionMark ELSE v

\* the count of the operators only
NextCountOperators(ops, c) == IF c \in Operators THEN ops + 1 ELSE ops
\* line 158: operations += 1, whatever the instruction c is
NextCount(ops, c) == ops + 1

\* the last character of the line for the first
LastChar(line) == line[Len(line)]
\* line 38: input[0]
FirstChar(line) == line[1]
\* lines 30-38: get_input returns input[0] unless it throws
InputThrows(line, good) == ~good \/ line = <<>>

\* the test with > 0 for != 0
NonZeroPositive(v) == v > 0
\* lines 208 and 237: the truth value of stack[pointer]
NonZero(v) == v # 0

\* the scan without the count of nested opening brackets
ScanDepthFlat(depth, c) == IF c = "]" THEN depth - 1 ELSE depth
\* lines 216-219
ScanDepth(depth, c) ==
    IF c = "[" THEN depth + 1 ELSE IF c = "]" THEN depth - 1 ELSE depth

\* loop_start_indices.back()
Back(lsi) == lsi[Len(lsi)]
\* lines 226-229
PushLoopStart(lsi, i) ==
    IF lsi = <<>> \/ (lsi # <<>> /\ Back(lsi) # i) THEN Append(lsi, i) ELSE lsi
\* the branch of line 251 without its pop_back()
PopBackKeeps(lsi) == lsi
\* line 252, on a vector that is not empty
PopBack(lsi) == SubSeq(lsi, 1, Len(lsi) - 1)
\* line 238
CanRepeat(lsi) == lsi # <<>>
\* line 239 followed by the index += 1 of line 153: the index of the next
\* iteration after a repeat
JumpTarget(lsi) == Back(lsi) + 1
\* the push without the test of the cell
StackAfterOpenAlways(v, lsi, i) == Append(lsi, i)
\* lines 208-229: the vector after a `[` at index i with cell value v
StackAfterOpen(v, lsi, i) == IF NonZero(v) THEN PushLoopStart(lsi, i) ELSE lsi
\* instructions[k] for 0 <= k <= size(): at size() the terminator is read
ReadAt(prog, k) == IF k < Len(prog) THEN At(prog, k) ELSE Nul

RECURSIVE ScanStop(_, _, _)
\* lines 212-220 run from index k with indentation depth, inside the string:
\* the index the while loop ends at, or size() + 1 if it leaves the string
ScanStop(prog, k, depth) ==
    IF depth = 0 THEN k
    ELSE IF k + 1 > Len(prog) THEN Len(prog) + 1
    ELSE ScanStop(prog, k + 1, ScanDepth(depth, ReadAt(prog, k + 1)))
\* what a read past the terminator can deliver: any byte, seen by the scan as
\* an opening bracket, a closing bracket or neither
StrayChars == {"[", "]", "x"}
\* what pop_back() on the empty vector can leave behind: a vector that reads
\* as empty, or one whose back() is a stray value
StrayStacks(prog) == {<<>>} \cup {<<g>> : g \in 0..(Len(prog) - 1)}

----------------------------------------------------------------------------
(* The state after construction (lines 135-153) *)

Init ==
    /\ instructions \in Programs
    /\ cell_limit \in CellLimits
    /\ stack = EmptyTape
    /\ pointer = 0
    /\ loop_start_indices = <<>>
    /\ lowest_cell = 0
    /\ greatest_cell = 0
    /\ operations = 0
    /\ left_shifts = 0
    /\ right_shifts = 0
    /\ index = 0
    /\ indentation = 0
    /\ scan_from = 0
    /\ output = <<>>
    /\ verbose \in BOOLEAN
    /\ report = <<>>
    /\ input = <<>>
    /\ cin_good = TRUE
    /\ leftmost = 0
    /\ rightmost = 0
    /\ pc = "run"
    /\ result = "Running"

----------------------------------------------------------------------------
(* One iteration of the for loop of line 153 *)

N == Len(instructions)

\* line 12: the characters count_operators looks for
CountedChars == {"+", "-", ".", "/", "<", ">", "[", "]"}
\* lines 11-21
CountOperators(prog) == Cardinality({k \in 1..Len(prog) : prog[k] \in CountedChars})

\* lines 263-272: what the verbose report shows
Statistics ==
    [operator_count |-> CountOperators(instructions),
     operations |-> operations,
     cells_used |-> Abs(greatest_cell) + Abs(lowest_cell) + 1,
     lowest_cell |-> lowest_cell,
     greatest_cell |-> greatest_cell,
     left_shifts |-> left_shifts,
     right_shifts |-> right_shifts]

\* the report printed on the way out of the catch block as well
ReportOnThrowVerbose(v) == IF v THEN <<Statistics>> ELSE <<>>
\* lines 290-295: the catch block returns without the report of lines 260-288
ReportOnThrow(v) == <<>>

\* lines 153-165: the loop condition holds, the instruction is c, the
\* operation is counted and the limit check passes
Fetch(c) ==
    /\ pc = "run"
    /\ index < N
    /\ operations < MaxOps
    /\ At(instructions, index) = c
    /\ ~OverLimit(greatest_cell, lowest_cell, cell_limit)
    /\ operations' = NextCount(operations, c)

\* the index += 1 of line 153 after a body that ran to its end
Advance ==
    index' = index + 1 /\ pc' = "run" /\ result' = result /\ report' = report

\* a throw -1, caught at line 290: main returns
Throw(kind) ==
    /\ index' = index
    /\ pc' = "done"
    /\ result' = kind
    /\ report' = ReportOnThrow(verbose)

Fixed ==
    UNCHANGED <<instructions, cell_limit, verbose, input, cin_good, scan_from,
                indentation>>

\* lines 162-165
LimitReached ==
    /\ pc = "run"
    /\ index < N
    /\ operations < MaxOps
    /\ OverLimit(greatest_cell, lowest_cell, cell_limit)
    /\ operations' = NextCount(operations, At(instructions, index))
    /\ Throw("ResourceLimitExceeded")
    /\ Fixed
    /\ UNCHANGED <<stack, pointer, leftmost, rightmost, loop_start_indices,
                   lowest_cell,
                   greatest_cell, left_shifts, right_shifts, output>>

\* lines 168-169
Increment ==
    /\ Fetch("+")
    /\ stack' = Store(stack, pointer, Inc(Cell(stack, pointer)))
    /\ Advance
    /\ Fixed
    /\ UNCHANGED <<pointer, leftmost, rightmost, loop_start_indices,
                   lowest_cell, greatest_cell,
                   left_shifts, right_shifts, output>>

\* lines 170-171
Decrement ==
    /\ Fetch("-")
    /\ stack' = Store(stack, pointer, Dec(Cell(stack, pointer)))
    /\ Advance
    /\ Fixed
    /\ UNCHANGED <<pointer, leftmost, rightmost, loop_start_indices,
                   lowest_cell, greatest_cell,
                   left_shifts, right_shifts, output>>

\* lines 174-178
ShiftRight ==
    /\ Fetch(">")
    /\ pointer' = pointer + 1
    /\ right_shifts' = right_shifts + 1
    /\ lowest_cell' = LowestAfterRight(pointer', lowest_cell)
    /\ rightmost' = Max(rightmost, pointer')
    /\ leftmost' = leftmost
    /\ Advance
    /\ Fixed
    /\ UNCHANGED <<stack, loop_start_indices, greatest_cell, left_shifts, output>>

\* lines 179-183
ShiftLeft ==
    /\ Fetch("<")
    /\ pointer' = pointer - 1
    /\ left_shifts' = left_shifts + 1
    /\ greatest_cell' = GreatestAfterLeft(pointer', greatest_cell)
    /\ leftmost' = Min(leftmost, pointer')
    /\ rightmost' = rightmost
    /\ Advance
    /\ Fixed
    /\ UNCHANGED <<stack, loop_start_indices, lowest_cell, right_shifts, output>>

\* lines 189-197
WriteOutput ==
    /\ Fetch(".")
    /\ stack' = Touch(stack, pointer)
    /\ output' = Append(output, OutputChar(Cell(stack, pointer)))
    /\ Advance
    /\ Fixed
    /\ UNCHANGED <<pointer, leftmost, rightmost, loop_start_indices,
                   lowest_cell, greatest_cell,
                   left_shifts, right_shifts>>

\* lines 200-201 with get_input returning input[0] (line 38)
ReadInput ==
    /\ Fetch(",")
    /\ \E line \in InputLines, good \in BOOLEAN :
          /\ ~InputThrows(line, good)
          /\ input' = line
          /\ cin_good' = good
          /\ stack' = Store(stack, pointer, FirstChar(line))
    /\ Advance
    /\ UNCHANGED <<instructions, cell_limit, verbose, scan_from, indentation>>
    /\ UNCHANGED <<pointer, leftmost, rightmost, loop_start_indices,
                   lowest_cell, greatest_cell,
                   left_shifts, right_shifts, output>>

\* lines 200-201 with get_input throwing (lines 30-36).  Whether stack[pointer]
\* was evaluated, inserting a zero cell, before the call is unspecified
\* before C++17.
ReadInputFails ==
    /\ Fetch(",")
    /\ \E line \in InputLines, good \in BOOLEAN :
          /\ InputThrows(line, good)
          /\ input' = line
          /\ cin_good' = good
    /\ stack' \in {stack, Touch(stack, pointer)}
    /\ Throw("InputError")
    /\ UNCHANGED <<instructions, cell_limit, verbose, scan_from, indentation>>
    /\ UNCHANGED <<pointer, leftmost, rightmost, loop_start_indices,
                   lowest_cell, greatest_cell,
                   left_shifts, right_shifts, output>>

\* any other character: no branch of lines 168-253 is taken
NoOp ==
    /\ \E c \in OtherChars : Fetch(c)
    /\ Advance
    /\ Fixed
    /\ UNCHANGED <<stack, pointer, leftmost, rightmost, loop_start_indices,
                   lowest_cell,
                   greatest_cell, left_shifts, right_shifts, output>>

\* lines 204-221 with a zero cell: the skip scan starts
LoopStartSkip ==
    /\ Fetch("[")
    /\ ~NonZero(Cell(stack, pointer))
    /\ stack' = Touch(stack, pointer)
    /\ loop_start_indices' =
          StackAfterOpen(Cell(stack, pointer), loop_start_indices, index)
    /\ indentation' = 1
    /\ scan_from' = index
    /\ pc' = "scan"
    /\ UNCHANGED <<instructions, cell_limit, verbose, report, input, cin_good,
                   pointer, leftmost, rightmost, lowest_cell, greatest_cell,
                   left_shifts, right_shifts, index, output, result>>

\* lines 212-220: one iteration of the while loop that reads inside the string
\* or its terminator
ScanStep ==
    /\ pc = "scan"
    /\ indentation # 0
    /\ index + 1 <= N
    /\ index' = index + 1
    /\ indentation' = ScanDepth(indentation, ReadAt(instructions, index + 1))
    /\ UNCHANGED <<instructions, cell_limit, verbose, report, input, cin_good,
                   stack, pointer, leftmost, rightmost, loop_start_indices,
                   lowest_cell, greatest_cell, operations, left_shifts,
                   right_shifts, scan_from, output, pc, result>>

\* lines 212-220: one iteration that reads past the terminator, which is
\* undefined: the read delivers some byte
ScanOverrun ==
    /\ pc = "scan"
    /\ indentation # 0
    /\ index + 1 > N
    /\ index + 1 <= N + MaxOverrun
    /\ index' = index + 1
    /\ \E c \in StrayChars : indentation' = ScanDepth(indentation, c)
    /\ UNCHANGED <<instructions, cell_limit, verbose, report, input, cin_good,
                   stack, pointer, leftmost, rightmost, loop_start_indices,
                   lowest_cell, greatest_cell, operations, left_shifts,
                   right_shifts, scan_from, output, pc, result>>

\* lines 212-220: one iteration that reads past the terminator and faults
ScanCrash ==
    /\ pc = "scan"
    /\ indentation # 0
    /\ index + 1 > N
    /\ index' = index + 1
    /\ pc' = "done"
    /\ result' = "Crashed"
    /\ UNCHANGED <<instructions, cell_limit, verbose, report, input, cin_good,
                   stack, pointer, leftmost, rightmost, loop_start_indices,
                   lowest_cell, greatest_cell, operations, left_shifts,
                   right_shifts, indentation, scan_from, output>>

\* line 212 with indentation zero: the while loop ends, then line 153's
\* index += 1
ScanExit ==
    /\ pc = "scan"
    /\ indentation = 0
    /\ Advance
    /\ UNCHANGED <<instructions, cell_limit, verbose, input, cin_good,
                   stack, pointer, leftmost, rightmost, loop_start_indices,
                   lowest_cell, greatest_cell, operations, left_shifts,
                   right_shifts, indentation, scan_from, output>>

\* lines 204-230 with a non-zero cell
LoopStartEnter ==
    /\ Fetch("[")
    /\ NonZero(Cell(stack, pointer))
    /\ stack' = Touch(stack, pointer)
    /\ loop_start_indices' =
          StackAfterOpen(Cell(stack, pointer), loop_start_indices, index)
    /\ Advance
    /\ Fixed
    /\ UNCHANGED <<pointer, leftmost, rightmost, lowest_cell, greatest_cell, left_shifts,
                   right_shifts, output>>

\* lines 237-239, then line 153's index += 1
LoopEndRepeat ==
    /\ Fetch("]")
    /\ NonZero(Cell(stack, pointer))
    /\ CanRepeat(loop_start_indices)
    /\ stack' = Touch(stack, pointer)
    /\ index' = JumpTarget(loop_start_indices)
    /\ pc' = "run"
    /\ Fixed
    /\ UNCHANGED <<report, pointer, leftmost, rightmost, loop_start_indices,
                   lowest_cell, greatest_cell,
                   left_shifts, right_shifts, output, result>>

\* lines 237 and 243-246
LoopEndSyntaxError ==
    /\ Fetch("]")
    /\ NonZero(Cell(stack, pointer))
    /\ ~CanRepeat(loop_start_indices)
    /\ stack' = Touch(stack, pointer)
    /\ Throw("UnbalancedLoop")
    /\ Fixed
    /\ UNCHANGED <<pointer, leftmost, rightmost, loop_start_indices,
                   lowest_cell, greatest_cell,
                   left_shifts, right_shifts, output>>

\* lines 251-252 on a vector that holds an entry
LoopEndPop ==
    /\ Fetch("]")
    /\ ~NonZero(Cell(stack, pointer))
    /\ loop_start_indices # <<>>
    /\ stack' = Touch(stack, pointer)
    /\ loop_start_indices' = PopBack(loop_start_indices)
    /\ Advance
    /\ Fixed
    /\ UNCHANGED <<pointer, leftmost, rightmost, lowest_cell, greatest_cell, left_shifts,
                   right_shifts, output>>

\* lines 251-252 on the empty vector: pop_back() is undefined there.  The run
\* goes on with whatever the vector then reads as.
LoopEndPopEmpty ==
    /\ Fetch("]")
    /\ ~NonZero(Cell(stack, pointer))
    /\ loop_start_indices = <<>>
    /\ stack' = Touch(stack, pointer)
    /\ loop_start_indices' \in StrayStacks(instructions)
    /\ Advance
    /\ Fixed
    /\ UNCHANGED <<pointer, leftmost, rightmost, lowest_cell, greatest_cell, left_shifts,
                   right_shifts, output>>

\* lines 251-252 on the empty vector, with the undefined pop_back() faulting
LoopEndPopCrash ==
    /\ Fetch("]")
    /\ ~NonZero(Cell(stack, pointer))
    /\ loop_start_indices = <<>>
    /\ stack' = Touch(stack, pointer)
    /\ Throw("Crashed")
    /\ Fixed
    /\ UNCHANGED <<pointer, leftmost, rightmost, loop_start_indices,
                   lowest_cell, greatest_cell,
                   left_shifts, right_shifts, output>>

\* line 153 with the loop condition false: lines 256-297, main returns 0
Finish ==
    /\ pc = "run"
    /\ index >= N
    /\ pc' = "done"
    /\ result' = "Completed"
    /\ report' = IF verbose THEN <<Statistics>> ELSE <<>>
    /\ UNCHANGED <<instructions, cell_limit, verbose, input, cin_good,
                   stack, pointer, leftmost, rightmost, loop_start_indices,
                   lowest_cell, greatest_cell, operations, left_shifts,
                   right_shifts, index, indentation, scan_from, output>>

Next ==
    \/ LimitReached
    \/ Increment
    \/ Decrement
    \/ ShiftRight
    \/ ShiftLeft
    \/ WriteOutput
    \/ ReadInput
    \/ ReadInputFails
    \/ NoOp
    \/ LoopStartSkip
    \/ ScanStep
    \/ ScanOverrun
    \/ ScanCrash
    \/ ScanExit
    \/ LoopStartEnter
    \/ LoopEndRepeat
    \/ LoopEndSyntaxError
    \/ LoopEndPop
    \/ LoopEndPopEmpty
    \/ LoopEndPopCrash
    \/ Finish

Spec == Init /\ [][Next]_vars

----------------------------------------------------------------------------
(* Bracket structure of a program text, independent of any run *)

\* how many of the first k characters of prog are c
Count(prog, k, c) == Cardinality({h \in 1..k : prog[h] = c})
\* opening minus closing brackets among the first k characters
Depth(prog, k) == Count(prog, k, "[") - Count(prog, k, "]")

Balanced(prog) ==
    /\ \A k \in 0..Len(prog) : Depth(prog, k) >= 0
    /\ Depth(prog, Len(prog)) = 0

\* the indices at which the bracket opened at index i is closed again
Closers(prog, i) ==
    {j \in (i + 1)..(Len(prog) - 1) : Depth(prog, j + 1) = Depth(prog, i)}
HasMatch(prog, i) == Closers(prog, i) # {}
\* the `]` that syntactically matches the `[` at index i
Match(prog, i) == CHOOSE j \in Closers(prog, i) : \A h \in Closers(prog, i) : j <= h

RECURSIVE Ascending(_)
Ascending(S) ==
    IF S = {} THEN <<>>
    ELSE LET m == CHOOSE x \in S : \A y \in S : x <= y
         IN <<m>> \o Ascending(S \ {m})

\* the `[` whose loop body (closing bracket included) holds index k,
\* outermost first
Enclosing(prog, k) ==
    Ascending({i \in 0..(k - 1) :
        /\ i < Len(prog)
        /\ At(prog, i) = "["
        /\ HasMatch(prog, i)
        /\ Match(prog, i) >= k})

AtRun(c) == pc = "run" /\ index < N /\ At(instructions, index) = c
Current == Cell(stack, pointer)
SpanSum == Abs(greatest_cell) + Abs(lowest_cell)

----------------------------------------------------------------------------
(* C1 *)

\* C1: in the run of a bracket-balanced program, whenever the loop head is
\* reached the vector loop_start_indices is the list of the `[` that enclose
\* the current index, outermost first; so when a `]` at index j is met with a
\* non-zero cell, back() is the `[` that matches j, the one whose skip scan
\* stops at j.
C1_StackIsEnclosing ==
    (Balanced(instructions) /\ pc = "run") =>
        /\ loop_start_indices = Enclosing(instructions, index)
        /\ (AtRun("]") /\ Current # 0) =>
              /\ loop_start_indices # <<>>
              /\ Match(instructions, Back(loop_start_indices)) = index
              /\ ScanStop(instructions, Back(loop_start_indices), 1) = index

\* a `]` of an inner loop is met with a non-zero cell, two loops being open
C1_Witness ==
    /\ Balanced(instructions)
    /\ AtRun("]")
    /\ Current # 0
    /\ Len(loop_start_indices) = 2
    /\ operations > Len(instructions)

----------------------------------------------------------------------------
(* C2 *)

ScanMatched == pc = "scan" /\ HasMatch(instructions, scan_from)

\* C2: a skip scan started at a `[` at index i that has a matching `]` at
\* index j starts with depth 1 at i, runs inside i..j with a positive depth
\* before j and ends with the index at j; no step of the scan executes an
\* instruction or counts an operation, and the step that leaves the scan goes
\* to the loop head with index j + 1.
C2_SkipEndsAtMatch ==
    /\ [](ScanMatched =>
            /\ At(instructions, scan_from) = "["
            /\ scan_from <= index
            /\ index <= Match(instructions, scan_from)
            /\ indentation = 1 + Depth(instructions, index + 1)
                               - Depth(instructions, scan_from + 1)
            /\ (indentation = 0) = (index = Match(instructions, scan_from)))
    /\ [][ScanMatched =>
            /\ UNCHANGED <<stack, pointer, leftmost, rightmost, loop_start_indices, operations,
                           output, lowest_cell, greatest_cell, left_shifts,
                           right_shifts, result>>
            /\ pc' = "scan" \/
                  (pc' = "run" /\ index' = Match(instructions, scan_from) + 1)]_vars

\* a skip scan has ended over a nested loop
C2_Witness ==
    /\ ScanMatched
    /\ indentation = 0
    /\ index = Match(instructions, scan_from)
    /\ \E k \in (scan_from + 1)..(index - 1) : At(instructions, k) = "["

----------------------------------------------------------------------------
(* C3 *)

\* C3: a step taken at a `[` whose cell is zero, and every step of the skip
\* scan that follows it, leaves loop_start_indices as it was.
C3_ZeroOpenKeepsStack ==
    [][((AtRun("[") /\ Current = 0) \/ pc = "scan") =>
            loop_start_indices' = loop_start_indices]_vars

\* a skip scan is running while the vector holds an entry
C3_Witness ==
    /\ Balanced(instructions)
    /\ pc = "scan"
    /\ index > scan_from
    /\ loop_start_indices # <<>>

----------------------------------------------------------------------------
(* C4 *)

\* C4: the run of the program `]` ends at its first instruction with
\* UnbalancedLoop.
C4_SingleCloseFails ==
    (instructions = <<"]">> /\ pc = "done") =>
        /\ result = "UnbalancedLoop"
        /\ index = 0
        /\ operations = 1

----------------------------------------------------------------------------
(* C5 *)

\* C5: a step taken at a `]` that passed the limit check, with a non-zero cell
\* and an empty vector, ends the run with UnbalancedLoop at that index and
\* leaves tape, pointer and vector as they were.
C5_EmptyRepeatFails ==
    [][(AtRun("]") /\ Current # 0 /\ loop_start_indices = <<>>
            /\ SpanSum <= cell_limit) =>
            /\ result' = "UnbalancedLoop"
            /\ pc' = "done"
            /\ index' = index
            /\ stack' = stack
            /\ pointer' = pointer
            /\ loop_start_indices' = loop_start_indices]_vars

\* a run ended with UnbalancedLoop away from cell 0
C5_Witness ==
    /\ result = "UnbalancedLoop"
    /\ pointer # 0
    /\ loop_start_indices = <<>>

----------------------------------------------------------------------------
(* C6 *)

\* C6: in the run of the program `[` the skip scan reads no index past the
\* string, and the run ends Completed with an empty vector or with
\* MalformedProgram.
C6_SingleOpenTerminates ==
    (instructions = <<"[">>) =>
        /\ index <= N
        /\ pc = "done" =>
              /\ result \in {"Completed", "MalformedProgram"}
              /\ loop_start_indices = <<>>

----------------------------------------------------------------------------
(* C7 *)

\* +[]
SpinProgram == <<"+", "[", "]">>
\* +[>+]
RightRunProgram == <<"+", "[", ">", "+", "]">>
\* +[<<>+]
LeftRunProgram == <<"+", "[", "<", "<", ">", "+", "]">>

LivePrograms == {SpinProgram, RightRunProgram, LeftRunProgram}

LiveInit ==
    /\ Init
    /\ instructions \in LivePrograms
    /\ cell_limit > 0

\* The counter `operations` is a 32-bit int in the program and comes round
\* again; the model lets it come round at MaxOps, so that an endless run whose
\* pointer and shift counters stand still is a cycle of states.  A run that
\* keeps moving the pointer is followed for MaxOps iterations only.
Rollover ==
    /\ pc = "run"
    /\ operations = MaxOps
    /\ left_shifts = 0
    /\ right_shifts = 0
    /\ operations' = 0
    /\ UNCHANGED <<instructions, cell_limit, verbose, report, input, cin_good,
                   stack, pointer, leftmost, rightmost, loop_start_indices,
                   lowest_cell, greatest_cell, left_shifts, right_shifts, index,
                   indentation, scan_from, output, pc, result>>

LiveNext ==
    \/ LimitReached
    \/ Increment
    \/ ShiftRight
    \/ ShiftLeft
    \/ LoopStartEnter
    \/ LoopEndRepeat
    \/ Rollover

\* the program is one thread that takes its next step whenever it has one
LiveSpec == LiveInit /\ [][LiveNext]_vars /\ WF_vars(LiveNext)

----------------------------------------------------------------------------
(* C8 *)

\* C8: a step taken at the loop head with an instruction left and the sum of
\* the absolute extrema above cell_limit ends the run with
\* ResourceLimitExceeded and leaves tape, pointer, vector and output as they
\* were; and no step ends the run so when the sum is at most cell_limit.
C8_LimitCheck ==
    [][/\ (pc = "run" /\ index < N /\ SpanSum > cell_limit) =>
            /\ result' = "ResourceLimitExceeded"
            /\ pc' = "done"
            /\ stack' = stack
            /\ pointer' = pointer
            /\ loop_start_indices' = loop_start_indices
            /\ output' = output
       /\ (result' = "ResourceLimitExceeded" /\ result # "ResourceLimitExceeded") =>
            SpanSum > cell_limit]_vars

\* the check tripped under a positive limit, before an instruction that
\* would have changed the tape
C8_Witness ==
    /\ result = "ResourceLimitExceeded"
    /\ cell_limit > 0
    /\ At(instructions, index) = "+"

----------------------------------------------------------------------------
(* C9 *)

\* C9: the run of ++++++++[>++++<-]>. under the default limit never fails,
\* and when it has ended it is Completed with exactly one character written,
\* the space, cell 1 holding 32, cell 0 holding 0 and an empty vector.
C9_TimesProgram ==
    (instructions = TimesProgram /\ cell_limit = DefaultCellLimit) =>
        /\ result \in {"Running", "Completed"}
        /\ output \in {<<>>, <<Space>>}
        /\ pc = "done" =>
              /\ result = "Completed"
              /\ output = <<Space>>
              /\ Cell(stack, 1) = 32
              /\ Cell(stack, 0) = 0
              /\ loop_start_indices = <<>>

\* the run of the program under the default limit has ended
C9_Witness ==
    /\ instructions = TimesProgram
    /\ cell_limit = DefaultCellLimit
    /\ pc = "done"

----------------------------------------------------------------------------
(* C10 *)

PlusMinusOnly(prog) == \A k \in 1..Len(prog) : prog[k] \in {"+", "-"}

\* an integer reduced modulo 256 into -128..127
SignedByte(n) == LET m == n % 256 IN IF m > 127 THEN m - 256 ELSE m

\* C10: in the run of a program of `+` and `-` only, after the first k
\* instructions cell 0 holds the number of `+` minus the number of `-` among
\* them, reduced modulo 256 into -128..127, and the pointer is still 0.
C10_WrapAround ==
    (PlusMinusOnly(instructions) /\ pc = "run") =>
        /\ pointer = 0
        /\ Cell(stack, 0) =
              SignedByte(Count(instructions, index, "+")
                           - Count(instructions, index, "-"))

\* a `-` has just taken the cell from -128 to 127
C10_Witness ==
    /\ PlusMinusOnly(instructions)
    /\ pc = "run"
    /\ index > 0
    /\ At(instructions, index - 1) = "-"
    /\ Cell(stack, 0) = CharMax

----------------------------------------------------------------------------
(* C11 *)

\* the addresses whose cells a step can tell apart
Touched == DOMAIN stack \cup DOMAIN stack' \cup {pointer}

\* C11: a step taken at a `,` that passed the limit check reads one line.
\* With the read good and the line not empty, the cell at the pointer becomes
\* the line's first character, every other cell keeps its value and the run
\* goes on; otherwise the run ends with InputError and every cell keeps its
\* value.  The run of `,.` that read the line "A" ends Completed having
\* written `A`.
C11_Input ==
    /\ [][(AtRun(",") /\ SpanSum <= cell_limit) =>
            \/ /\ cin_good' /\ input' # <<>>
               /\ result' = "Running" /\ pc' = "run" /\ index' = index + 1
               /\ Cell(stack', pointer) = input'[1]
               /\ \A a \in Touched \ {pointer} : Cell(stack', a) = Cell(stack, a)
            \/ /\ ~cin_good' \/ input' = <<>>
               /\ result' = "InputError" /\ pc' = "done"
               /\ \A a \in Touched : Cell(stack', a) = Cell(stack, a)]_vars
    /\ []((instructions = <<",", ".">> /\ pc = "done" /\ cin_good
             /\ input = <<65>>) =>
            (result = "Completed" /\ output = <<65>>))

\* a read of an empty line ended the run with a non-zero cell left as it was
C11_Witness ==
    /\ result = "InputError"
    /\ input = <<>>
    /\ cin_good
    /\ Current # 0

----------------------------------------------------------------------------
(* C12 *)

----------------------------------------------------------------------------
(* C13 *)

\* C13: the vector is empty before the first iteration, and it is empty when
\* the run of a bracket-balanced program has ended Completed.
C13_StackEmptyAtEnds ==
    /\ (pc = "run" /\ operations = 0) => loop_start_indices = <<>>
    /\ (Balanced(instructions) /\ result = "Completed") =>
          loop_start_indices = <<>>

\* a balanced program has completed after repeating a loop
C13_Witness ==
    /\ Balanced(instructions)
    /\ result = "Completed"
    /\ \E k \in 1..N : instructions[k] = "["
    /\ operations > N

----------------------------------------------------------------------------
(* C14 *)

\* C14: the operator count of the report is the number of characters of the
\* program that are among the eight operators + - < > . , [ ]
C14_OperatorCount ==
    report # <<>> =>
        report[1].operator_count =
            Cardinality({k \in 1..N : instructions[k] \in Operators})

----------------------------------------------------------------------------
(* C15 *)

NoBrackets(prog) == \A k \in 1..Len(prog) : prog[k] \notin {"[", "]"}

\* C15: when the run of a program without brackets has ended Completed, the
\* count of operations is the length of the program, and so is the count the
\* report shows; the run of the empty program ends Completed with the count
\* 0 and a tape without cells.
C15_OperationsIsLength ==
    /\ (NoBrackets(instructions) /\ result = "Completed") =>
          /\ operations = N
          /\ report # <<>> => report[1].operations = N
    /\ (N = 0 /\ pc = "done") =>
          /\ result = "Completed"
          /\ operations = 0
          /\ DOMAIN stack = {}

\* a program of MaxLen characters, one of them no operator, has completed
C15_Witness ==
    /\ NoBrackets(instructions)
    /\ result = "Completed"
    /\ N = MaxLen
    /\ \E k \in 1..N : instructions[k] \in OtherChars

----------------------------------------------------------------------------
(* C16 *)

Failures == {"InputError", "ResourceLimitExceeded", "UnbalancedLoop"}

\* C16 as stated: when verbose is set and the run has failed, there is a
\* report, and it shows the operations counted up to the failure.
C16_ReportOnFailure ==
    (verbose /\ pc = "done" /\ result \in Failures) =>
        /\ report # <<>>
        /\ report[1].operations = operations

\* C16 as amended: a report is produced exactly when verbose is set and the
\* run has ended Completed, and it then shows the counters of the run; a run
\* that failed has produced none, verbose or not.
C16_ReportOnlyOnCompletion ==
    /\ (report # <<>>) = (verbose /\ pc = "done" /\ result = "Completed")
    /\ report # <<>> =>
          /\ Len(report) = 1
          /\ report[1].operations = operations
          /\ report[1].left_shifts = left_shifts
          /\ report[1].right_shifts = right_shifts

\* a verbose run has failed after some iterations and has no report
C16_Witness ==
    /\ verbose
    /\ result \in Failures
    /\ operations > 1
    /\ report = <<>>

----------------------------------------------------------------------------
(* C17 *)

RepeatCase ==
    /\ AtRun("]")
    /\ Current # 0
    /\ loop_start_indices # <<>>
    /\ SpanSum <= cell_limit

\* C17: a step taken at a `]` with a non-zero cell and a vector
\* that holds an entry keeps the vector and goes to the loop head with the
\* index of the `[` at its back.
C17_RepeatReevaluatesOpen ==
    [][RepeatCase =>
            /\ loop_start_indices' = loop_start_indices
            /\ pc' = "run"
            /\ index' = Back(loop_start_indices)]_vars

----------------------------------------------------------------------------
(* C18 *)

\* C18: every cell reads zero at the start; a step changes the pointer only
\* at a `>`, by +1, or at a `<`, by -1; and a step changes the value of a cell
\* only at a `+`, `-` or `,` and only at the pointer.
C18_Frame ==
    /\ \A a \in (-MaxOps)..MaxOps : Cell(stack, a) = 0
    /\ [][/\ pointer' # pointer =>
                \/ AtRun(">") /\ pointer' = pointer + 1
                \/ AtRun("<") /\ pointer' = pointer - 1
          /\ \A a \in Touched :
                Cell(stack', a) # Cell(stack, a) =>
                    /\ a = pointer
                    /\ AtRun("+") \/ AtRun("-") \/ AtRun(",")]_vars

\* a `.` has written a non-zero cell away from cell 0, which was never written
C18_Witness ==
    /\ output # <<>>
    /\ pointer # 0
    /\ Current # 0
    /\ 0 \notin DOMAIN stack

----------------------------------------------------------------------------
(* C19 *)

\* C19: whenever the loop head is reached, in the run of any program, the
\* vector is a strictly increasing sequence of indices of `[` characters, all
\* less than the current index.
C19_StackIncreasing ==
    pc = "run" =>
        /\ \A k \in 1..Len(loop_start_indices) :
              /\ loop_start_indices[k] < index
              /\ loop_start_indices[k] < N
              /\ At(instructions, loop_start_indices[k]) = "["
        /\ \A k \in 1..(Len(loop_start_indices) - 1) :
              loop_start_indices[k] < loop_start_indices[k + 1]

----------------------------------------------------------------------------
(* C20 *)

\* C20: lowest_cell <= 0 <= greatest_cell, and the cells used that the
\* report derives, |greatest_cell| + |lowest_cell| + 1, are at most the
\* addresses the pointer has spanned, rightmost - leftmost + 1.
C20_ExtremaWithinSpan ==
    /\ lowest_cell <= 0
    /\ 0 <= greatest_cell
    /\ Abs(greatest_cell) + Abs(lowest_cell) + 1 <= rightmost - leftmost + 1
    /\ report # <<>> => report[1].cells_used <= rightmost - leftmost + 1

\* both extrema have moved, and the derived count is below the span
C20_Witness ==
    /\ lowest_cell < 0
    /\ greatest_cell > 0
    /\ Abs(greatest_cell) + Abs(lowest_cell) + 1 < rightmost - leftmost + 1

====
